---- MODULE Spec2Model ----
(***************************************************************************)
(* Model of execute_commands.py: the batch loop that runs the command of   *)
(* every human turn of a conversation dataset and stores the captured      *)
(* output in the gpt turn that follows it.                                 *)
(*                                                                         *)
(* Text is a sequence of one-character strings.  Characters outside ASCII  *)
(* are written by code point ("u547D").  Python's None is the empty tuple  *)
(* where an integer may stand (end_index) and a record with no field where *)
(* a record may stand.                                                     *)
(***************************************************************************)
EXTENDS Integers, Sequences, FiniteSets, TLC

VARIABLES
    pc,            \* position of the program
    input_exists,  \* os.path.exists(args.input)
    timeout,       \* args.timeout
    start_index,   \* args.start
    end_arg,       \* args.end: <<>> for None, <<e>> for an integer
    infile,        \* the dataset stored in the input file
    confirm,       \* what input() returned or raised at the prompt
    data,          \* the dataset in memory
    end_index,     \* end_index after clamping
    conv_idx,      \* loop variable of the outer loop
    i,             \* loop variable of the inner loop
    outfile,       \* the output file
    exit_code,     \* exit status of the process, <<>> while it runs
    last,          \* history: the most recent call of execute_command
    executed,      \* history: the <<conversation, position>> pairs executed
    processed,     \* history: conversations completed in this run
    ckpts,         \* history: values of processed at each checkpoint write
    writes         \* history: number of writes of the output file

vars == <<pc, input_exists, timeout, start_index, end_arg, infile, confirm,
          data, end_index, conv_idx, i, outfile, exit_code, last, executed,
          processed, ckpts, writes>>

-----------------------------------------------------------------------------
(* Bounds of the model *)

\* short datasets hold 0..MaxN conversations
MaxN == 3
\* long datasets hold k*CheckpointEvery or k*CheckpointEvery + 1
\* conversations, k in 1..MaxCkpts
MaxCkpts == 2

\* line 128: (conv_idx + 1) % 10
CheckpointEvery == 10

-----------------------------------------------------------------------------
(* Text *)

\* characters str.strip() removes
Whitespace == {" ", "\t", "\n", "\r"}

RECURSIVE lstrip(_)
lstrip(s) ==
    IF s # <<>> /\ Head(s) \in Whitespace THEN lstrip(Tail(s)) ELSE s

RECURSIVE rstrip(_)
rstrip(s) ==
    IF s # <<>> /\ s[Len(s)] \in Whitespace
    THEN rstrip(SubSeq(s, 1, Len(s) - 1))
    ELSE s

\* str.strip()
strip(s) == rstrip(lstrip(s))

\* str(n) for an integer n >= 0
Digit(d) == <<"0", "1", "2", "3", "4", "5", "6", "7", "8", "9">>[d + 1]

RECURSIVE str(_)
str(n) == IF n < 10 THEN <<Digit(n)>> ELSE str(n \div 10) \o <<Digit(n % 10)>>

\* str.lower() on the characters of the prompt's answers
LowerChar(c) ==
    CASE c = "Y" -> "y"
      [] c = "E" -> "e"
      [] c = "S" -> "s"
      [] c = "N" -> "n"
      [] c = "O" -> "o"
      [] OTHER -> c

lower(s) == [k \in 1..Len(s) |-> LowerChar(s[k])]

-----------------------------------------------------------------------------
(* execute_command *)

\* "[" + label + ": " + timeout + second sign + "]"
TimeoutMarker(t) ==
    <<"[", "u547D", "u4EE4", "u6267", "u884C", "u8D85", "u65F6", ":", " ">>
        \o str(t) \o <<"u79D2", "]">>

\* "[" + label + ": " + str(e) + "]"
ErrorMarker(msg) ==
    <<"[", "u547D", "u4EE4", "u6267", "u884C", "u9519", "u8BEF", ":", " ">>
        \o msg \o <<"]">>

\* the join without its separator
CombineOutput_nosep(stdout, stderr) ==
    LET output == IF stderr # <<>> THEN stdout \o stderr ELSE stdout
    IN  IF output # <<>> THEN strip(output) ELSE <<>>

\* lines 48-55: the text returned for a completed process
CombineOutput(stdout, stderr) ==
    LET output ==
            IF stderr # <<>>
            THEN IF stdout # <<>> THEN stdout \o <<"\n">> \o stderr ELSE stderr
            ELSE stdout
    IN  IF output # <<>> THEN strip(output) ELSE <<>>

\* lines 36-60: the text execute_command returns when subprocess.run ends as r
execute_command(r, t) ==
    CASE r.kind = "completed" -> CombineOutput(r.stdout, r.stderr)
      [] r.kind = "timeout"   -> TimeoutMarker(t)
      [] r.kind = "error"     -> ErrorMarker(r.msg)

-----------------------------------------------------------------------------
(* subprocess.run: the ways the shell can end on a command *)

Completed(out, err, rc) ==
    [kind |-> "completed", stdout |-> out, stderr |-> err, returncode |-> rc]

TimeoutExpired == [kind |-> "timeout"]

Raised(msg) == [kind |-> "error", msg |-> msg]

ECHO_HI == <<"e", "c", "h", "o", " ", "h", "i">>
SLEEP_5 == <<"s", "l", "e", "e", "p", " ", "5">>
LS_X == <<"l", "s", " ", "x">>
JOB == <<".", "/", "j", "o", "b">>
OLD == <<"o", "l", "d">>

\* what the streams of an arbitrary program may hold
OutStreams == {<<>>, <<"\n">>, <<" ", "a", "\n">>}
ErrStreams == {<<>>, <<"\n">>, <<"b", "\t">>}

\* any way subprocess.run can end
AnyOutcome ==
    {Completed(out, err, rc) : out \in OutStreams, err \in ErrStreams, rc \in {0, 1}}
        \cup {TimeoutExpired, Raised(<<"E", "1", "1">>)}

\* lines 38-45: subprocess.run(command, shell=True, capture_output=True,
\* text=True, timeout=t) on a host where echo, sleep and ls behave as usual,
\* ./job is an arbitrary program and nothing else is installed
Run(command, t) ==
    CASE command = ECHO_HI -> {Completed(<<"h", "i", "\n">>, <<>>, 0)}
      [] command = <<>>    -> {Completed(<<>>, <<>>, 0)}
      [] command = SLEEP_5 ->
            IF t < 5 THEN {TimeoutExpired} ELSE {Completed(<<>>, <<>>, 0)}
      [] command = LS_X    ->
            {Completed(<<>>, <<"l", "s", ":", " ", "x", "\n">>, 2)}
      [] command = JOB     -> AnyOutcome
      [] OTHER             ->
            {Completed(<<>>, <<"s", "h", ":", " ">> \o command \o <<"\n">>, 127)}

-----------------------------------------------------------------------------
(* Datasets *)

Turn(f, v) == [from |-> f, value |-> v]

Conversation(turns) == [conversations |-> turns]

\* the conversations the datasets are built from
Shapes == <<
    Conversation(<<Turn("human", ECHO_HI), Turn("gpt", <<>>)>>),
    Conversation(<<Turn("human", SLEEP_5), Turn("gpt", OLD),
                   Turn("human", LS_X), Turn("gpt", OLD)>>),
    Conversation(<<Turn("gpt", OLD), Turn("human", ECHO_HI), Turn("gpt", OLD)>>),
    [id |-> <<"4">>],
    Conversation(<<[from |-> "human"], [from |-> "gpt"],
                   Turn("human", JOB), Turn("gpt", OLD)>>),
    Conversation(<<Turn("human", ECHO_HI), Turn("system", OLD),
                   Turn("human", LS_X), Turn("gpt", OLD),
                   Turn("human", ECHO_HI)>>)
>>

\* n conversations, the shapes in order from the one after rot
Dataset(n, rot) == [k \in 1..n |-> Shapes[((k - 1 + rot) % Len(Shapes)) + 1]]

\* n conversations of the first three shapes
LongDataset(n) == [k \in 1..n |-> Shapes[(k % 3) + 1]]

Datasets ==
    {Dataset(n, rot) : n \in 0..MaxN, rot \in 0..(Len(Shapes) - 1)}
        \cup {LongDataset(k * CheckpointEvery + e) : k \in 1..MaxCkpts, e \in {0, 1}}

\* values of --timeout: one below and the default of line 160
Timeouts == {1, 30}

\* values of --start for a dataset of n conversations: every index around a
\* short dataset, the ends and the first indexes of a long one
StartArgs(n) ==
    IF n <= MaxN
    THEN (0 - (n + 1))..(n + 1)
    ELSE {0 - (n + 1), 0 - 1, 0, 1, n + 1}

\* values of --end for a dataset of n conversations
EndArgs(n) ==
    {<<>>} \cup {<<e>> : e \in (IF n <= MaxN
                                THEN (0 - 1)..(n + 1)
                                ELSE {0, CheckpointEvery, n - 1, n + 1})}

\* what input() returns or raises at the prompt
Text(s) == [kind |-> "text", text |-> s]

PromptOutcomes ==
    {Text(<<"Y", "e", "s">>), Text(<<"y">>),
     Text(<<"n", "o">>), Text(<<>>), Text(<<" ", "y">>),
     [kind |-> "KeyboardInterrupt"], [kind |-> "EOFError"]}

-----------------------------------------------------------------------------
(* State *)

NoFile == [exists |-> FALSE]

File(content) == [exists |-> TRUE, content |-> content]

NoCall == [kind |-> "none"]

Init ==
    /\ pc = "main"
    /\ input_exists \in BOOLEAN
    /\ timeout \in Timeouts
    /\ infile \in (IF input_exists THEN Datasets ELSE {<<>>})
    /\ start_index \in (IF input_exists THEN StartArgs(Len(infile)) ELSE {0})
    /\ end_arg \in (IF input_exists THEN EndArgs(Len(infile)) ELSE {<<>>})
    /\ confirm = NoCall
    /\ data = <<>>
    /\ end_index = 0
    /\ conv_idx = 0
    /\ i = 0
    /\ outfile = NoFile
    /\ exit_code = <<>>
    /\ last = NoCall
    /\ executed = {}
    /\ processed = 0
    /\ ckpts = {}
    /\ writes = 0

-----------------------------------------------------------------------------
(* Helpers of main and process_conversations *)

\* line 194: confirm.lower() in ['yes', 'y']
Affirmative(s) == lower(s) \in {<<"y", "e", "s">>, <<"y">>}

\* lines 84-85: the end of the range for a dataset of total conversations
ClampEnd(e, total) == IF e = <<>> \/ e[1] > total THEN total ELSE e[1]

\* line 92: data[idx] raises IndexError unless -len(data) <= idx < len(data)
IndexOk(idx, total) == 0 - total <= idx /\ idx < total

\* line 92: the position (from 1) that data[idx] reads
Pos(idx, total) == IF idx < 0 THEN idx + total + 1 ELSE idx + 1

\* line 93: conversation.get("conversations", [])
conversations_list(conversation) ==
    IF "conversations" \in DOMAIN conversation
    THEN conversation.conversations
    ELSE <<>>

\* line 112: entry.get("value", "")
get_value(entry) == IF "value" \in DOMAIN entry THEN entry.value ELSE <<>>

\* line 120: entry["value"] = output
set_value(entry, output) ==
    [k \in DOMAIN entry \cup {"value"} |-> IF k = "value" THEN output ELSE entry[k]]

\* lines 99-101: the inner loop has a pair at i (from 0) of a list of n turns
HasPair(k, n) == k < n /\ k + 1 < n

\* line 107: the pair at k (from 0) is human -> gpt
IsValidPair(list, k) == list[k + 1].from = "human" /\ list[k + 2].from = "gpt"

\* the command read from the wrong turn of the pair
PairCommand_gpt(list, k) == get_value(list[k + 2])

\* lines 103, 112: the command of the pair at k (from 0)
PairCommand(list, k) == get_value(list[k + 1])

\* a stride of one turn, which pairs a human turn at an odd position
NextPair_resync(k) == k + 1

\* line 99: range(0, len, 2)
NextPair(k) == k + 2

\* the cadence tested on the index, not on the count
CheckpointDue_index(idx) == idx % CheckpointEvery = 0

\* line 128: a checkpoint is due after conversation idx
CheckpointDue(idx) == (idx + 1) % CheckpointEvery = 0

\* the clause for TimeoutExpired left out
Catches_error(r) == r.kind = "error"

\* lines 57-60: the except clauses turn this end of subprocess.run into text
Catches(r) == r.kind \in {"timeout", "error"}

-----------------------------------------------------------------------------
(* Actions *)

\* lines 179-181: main checks the input path
CheckInput ==
    /\ pc = "main"
    /\ IF input_exists
       THEN pc' = "prompt" /\ exit_code' = exit_code
       ELSE pc' = "exited" /\ exit_code' = <<1>>
    /\ UNCHANGED <<input_exists, timeout, start_index, end_arg, infile, confirm,
                   data, end_index, conv_idx, i, outfile, last, executed,
                   processed, ckpts, writes>>

\* lines 192-199: the confirmation prompt
Confirm ==
    /\ pc = "prompt"
    /\ \E r \in PromptOutcomes :
        /\ confirm' = r
        /\ CASE r.kind = "text" ->
                    IF Affirmative(r.text)
                    THEN pc' = "confirmed" /\ exit_code' = exit_code
                    ELSE pc' = "exited" /\ exit_code' = <<0>>
             [] r.kind = "KeyboardInterrupt" ->
                    pc' = "exited" /\ exit_code' = <<0>>
             [] OTHER ->
                    \* EOFError has no except clause: traceback, status 1
                    pc' = "EOFError" /\ exit_code' = <<1>>
    /\ UNCHANGED <<input_exists, timeout, start_index, end_arg, infile,
                   data, end_index, conv_idx, i, outfile, last, executed,
                   processed, ckpts, writes>>

\* lines 76-91: load the dataset, clamp the range, enter the outer loop
Load ==
    /\ pc = "confirmed"
    /\ data' = infile
    /\ end_index' = ClampEnd(end_arg, Len(infile))
    /\ conv_idx' = start_index
    /\ pc' = "conv"
    /\ UNCHANGED <<input_exists, timeout, start_index, end_arg, infile, confirm,
                   i, outfile, exit_code, last, executed, processed, ckpts,
                   writes>>

\* lines 91-99: the outer loop takes its next conversation, or ends
ConvBegin ==
    /\ pc = "conv"
    /\ IF conv_idx < end_index
       THEN IF IndexOk(conv_idx, Len(data))
            THEN pc' = "pair" /\ i' = 0 /\ exit_code' = exit_code
            ELSE pc' = "IndexError" /\ i' = i /\ exit_code' = <<1>>
       ELSE pc' = "final" /\ i' = i /\ exit_code' = exit_code
    /\ UNCHANGED <<input_exists, timeout, start_index, end_arg, infile, confirm,
                   data, end_index, conv_idx, outfile, last, executed,
                   processed, ckpts, writes>>

\* lines 107-109: a pair that is not human -> gpt is skipped
SkipPair ==
    /\ pc = "pair"
    /\ LET list == conversations_list(data[Pos(conv_idx, Len(data))])
       IN  /\ HasPair(i, Len(list))
           /\ ~IsValidPair(list, i)
    /\ i' = NextPair(i)
    /\ UNCHANGED <<pc, input_exists, timeout, start_index, end_arg, infile,
                   confirm, data, end_index, conv_idx, outfile, exit_code, last,
                   executed, processed, ckpts, writes>>

\* lines 111-125: the command of a human -> gpt pair is run and its output
\* stored in the gpt turn
ExecPair ==
    /\ pc = "pair"
    /\ LET p    == Pos(conv_idx, Len(data))
           list == conversations_list(data[p])
       IN  /\ HasPair(i, Len(list))
           /\ IsValidPair(list, i)
           /\ \E r \in Run(PairCommand(list, i), timeout) :
                IF r.kind = "completed" \/ Catches(r)
                THEN LET output == execute_command(r, timeout)
                     IN  /\ data' = [data EXCEPT ![p].conversations[i + 2] =
                                         set_value(list[i + 2], output)]
                         /\ last' = [kind |-> "call", conv |-> p, pos |-> i,
                                     command |-> PairCommand(list, i),
                                     result |-> r, output |-> output]
                         /\ executed' = executed \cup {<<p, i>>}
                         /\ i' = NextPair(i)
                         /\ UNCHANGED <<pc, exit_code>>
                ELSE /\ pc' = "uncaught"
                     /\ exit_code' = <<1>>
                     /\ last' = [kind |-> "raise", conv |-> p, pos |-> i,
                                 command |-> PairCommand(list, i), result |-> r]
                     /\ UNCHANGED <<data, executed, i>>
    /\ UNCHANGED <<input_exists, timeout, start_index, end_arg, infile, confirm,
                   end_index, conv_idx, outfile, processed, ckpts, writes>>

\* lines 99-101, 127-131: the inner loop ends; the dataset is saved when a
\* checkpoint is due; the outer loop advances
ConvEnd ==
    /\ pc = "pair"
    /\ ~HasPair(i, Len(conversations_list(data[Pos(conv_idx, Len(data))])))
    /\ processed' = processed + 1
    /\ IF CheckpointDue(conv_idx)
       THEN /\ outfile' = File(data)
            /\ writes' = writes + 1
            /\ ckpts' = ckpts \cup {processed + 1}
       ELSE UNCHANGED <<outfile, writes, ckpts>>
    /\ conv_idx' = conv_idx + 1
    /\ pc' = "conv"
    /\ UNCHANGED <<input_exists, timeout, start_index, end_arg, infile, confirm,
                   data, end_index, i, exit_code, last, executed>>

\* the final save of the processed slice alone
FinalSave_slice ==
    /\ pc = "final"
    /\ outfile' = File(SubSeq(data, start_index + 1, end_index))
    /\ writes' = writes + 1
    /\ pc' = "done"
    /\ exit_code' = <<0>>
    /\ UNCHANGED <<input_exists, timeout, start_index, end_arg, infile, confirm,
                   data, end_index, conv_idx, i, last, executed, processed,
                   ckpts>>

\* lines 133-138: the final save
FinalSave ==
    /\ pc = "final"
    /\ outfile' = File(data)
    /\ writes' = writes + 1
    /\ pc' = "done"
    /\ exit_code' = <<0>>
    /\ UNCHANGED <<input_exists, timeout, start_index, end_arg, infile, confirm,
                   data, end_index, conv_idx, i, last, executed, processed,
                   ckpts>>

Next ==
    \/ CheckInput
    \/ Confirm
    \/ Load
    \/ ConvBegin
    \/ SkipPair
    \/ ExecPair
    \/ ConvEnd
    \/ FinalSave

Spec == Init /\ [][Next]_vars

\* the program is sequential and every step of it ends: it keeps running
\* while a step is possible
FairSpec == Spec /\ WF_vars(Next)

-----------------------------------------------------------------------------
(* Vocabulary of the properties *)

\* the dataset is in memory
Loaded == pc \in {"conv", "pair", "final", "done"}

\* conversation p (from 1) lies in the range [from, to) of indexes (from 0)
InRange(p, from, to) == from <= p - 1 /\ p - 1 < to

\* turn j (from 1) of list is the gpt turn of a human -> gpt pair at an even
\* position (from 0)
IsGptSlot(list, j) ==
    /\ j % 2 = 0
    /\ j <= Len(list)
    /\ list[j - 1].from = "human"
    /\ list[j].from = "gpt"

\* the texts execute_command may return for a command
Outputs(command, t) == {execute_command(r, t) : r \in Run(command, t)}

\* conversation c is conversation orig with the output of every human -> gpt
\* pair filled in and nothing else changed
IsProcessed(c, orig, t) ==
    /\ DOMAIN c = DOMAIN orig
    /\ \A f \in DOMAIN c \ {"conversations"} : c[f] = orig[f]
    /\ Len(conversations_list(c)) = Len(conversations_list(orig))
    /\ \A j \in 1..Len(conversations_list(orig)) :
        LET was == conversations_list(orig)
            now == conversations_list(c)
        IN  IF IsGptSlot(was, j)
            THEN /\ now[j].from = "gpt"
                 /\ "value" \in DOMAIN now[j]
                 /\ now[j].value \in Outputs(get_value(was[j - 1]), t)
            ELSE now[j] = was[j]

\* s without the whitespace at its two ends, stated by positions
Trimmed(s) ==
    LET ink == {k \in 1..Len(s) : s[k] \notin Whitespace}
    IN  IF ink = {}
        THEN <<>>
        ELSE SubSeq(s, CHOOSE a \in ink : \A k \in ink : a <= k,
                       CHOOSE b \in ink : \A k \in ink : k <= b)

-----------------------------------------------------------------------------
(* Properties *)

\* C1: after a confirmed run has completed, in every conversation of the
\* range [start, end) every gpt turn of a human -> gpt pair at an even
\* position holds, in the output dataset, an output of execute_command on the
\* value of its human turn (the empty command when the value is missing); the
\* single pair ("echo hi", "") ends with "hi".
C1_PairsFilled ==
    pc = "done" =>
        \A p \in 1..Len(infile) :
            InRange(p, start_index, end_index) =>
                LET list == conversations_list(outfile.content[p])
                IN  /\ \A j \in 1..Len(list) :
                            IsGptSlot(list, j) =>
                                /\ "value" \in DOMAIN list[j]
                                /\ list[j].value \in
                                       Outputs(get_value(list[j - 1]), timeout)
                    /\ infile[p] = Shapes[1] => list[2].value = <<"h", "i">>

\* C1 witness: the run on the single pair ("echo hi", "") has completed
C1_Witness ==
    /\ pc = "done"
    /\ infile = <<Shapes[1]>>
    /\ InRange(1, start_index, end_index)
    /\ outfile.content[1].conversations[2].value = <<"h", "i">>

\* C2: no command is executed for a pair that is not human -> gpt at an even
\* position, every turn that is not the gpt turn of such a pair keeps its
\* input value in memory and in the output file, and the inner loop only
\* ever stands at even positions.
C2_SkippedUntouched ==
    Loaded =>
        /\ \A e \in executed :
                /\ e[2] % 2 = 0
                /\ IsGptSlot(conversations_list(infile[e[1]]), e[2] + 2)
        /\ \A p \in 1..Len(infile) :
                \A j \in 1..Len(conversations_list(infile[p])) :
                    ~IsGptSlot(conversations_list(infile[p]), j) =>
                        /\ conversations_list(data[p])[j] =
                               conversations_list(infile[p])[j]
                        /\ outfile.exists =>
                               conversations_list(outfile.content[p])[j] =
                                   conversations_list(infile[p])[j]
        /\ pc = "pair" => i % 2 = 0

\* C2 witness: a whole dataset has been processed that holds the conversation
\* gpt, human, gpt (a pair that is skipped, a human turn at an odd position
\* and a trailing turn)
C2_Witness ==
    /\ pc = "done"
    /\ \E p \in 1..Len(infile) :
        /\ InRange(p, start_index, end_index)
        /\ infile[p] = Shapes[3]
        /\ outfile.content[p] = Shapes[3]

\* C3 as claimed: commands are executed only in conversations with index in
\* [start, min(end, N)), and every other conversation is in the output file as
\* it was in the input.
C3_OnlyRange ==
    LET to == IF end_arg = <<>> \/ end_arg[1] > Len(infile)
              THEN Len(infile)
              ELSE end_arg[1]
    IN  Loaded =>
            /\ \A e \in executed : InRange(e[1], start_index, to)
            /\ outfile.exists =>
                    \A p \in 1..Len(infile) :
                        ~InRange(p, start_index, to) =>
                            outfile.content[p] = infile[p]

\* C4: with the default start and end, right after conversation k with
\* (k + 1) mod 10 = 0 has been processed the output file holds the processed
\* conversations up to k, as they are in memory, and the input's
\* conversations after k.
C4_Checkpoint ==
    (/\ start_index = 0
     /\ end_arg = <<>>
     /\ pc = "conv"
     /\ conv_idx > 0
     /\ conv_idx % CheckpointEvery = 0) =>
        /\ outfile.exists
        /\ Len(outfile.content) = Len(infile)
        /\ \A p \in 1..Len(infile) :
                IF p <= conv_idx
                THEN /\ outfile.content[p] = data[p]
                     /\ IsProcessed(outfile.content[p], infile[p], timeout)
                ELSE outfile.content[p] = infile[p]

\* C4 witness: the tenth conversation of a longer dataset has just been
\* processed
C4_Witness ==
    /\ start_index = 0
    /\ end_arg = <<>>
    /\ pc = "conv"
    /\ conv_idx = CheckpointEvery
    /\ Len(infile) > CheckpointEvery
    /\ outfile.exists
    /\ outfile.content[1] # infile[1]

\* C5 as claimed, for the start indexes from 0 on: the checkpoints written so
\* far are those after the 10th, 20th, ... conversation processed in this run.
C5_EveryTenProcessed ==
    (Loaded /\ start_index >= 0) =>
        ckpts = {q \in 1..processed : q % CheckpointEvery = 0}

\* C6 as claimed: when --end is unset or above the length N of the dataset,
\* the range ends at N, the loop reads no conversation at an index >= N, no
\* error is raised and the run ends with the final save.
C6_ClampNoError ==
    (end_arg = <<>> \/ end_arg[1] > Len(infile)) =>
        /\ Loaded => end_index = Len(infile)
        /\ pc = "pair" => conv_idx < Len(infile)
        /\ pc # "IndexError"
        /\ pc = "final" => ENABLED FinalSave

\* C7: for a command that completes, the text stored is the trimmed
\* stdout + "\n" + stderr when both are non-empty, the trimmed stderr when
\* stdout is empty and the trimmed stdout when stderr is empty, whatever the
\* exit status; it is the empty text when nothing but whitespace was written.
C7_Combined ==
    (last.kind = "call" /\ last.result.kind = "completed") =>
        LET out == last.result.stdout
            err == last.result.stderr
        IN  /\ last.output =
                   (IF out # <<>> /\ err # <<>>
                    THEN Trimmed(out \o <<"\n">> \o err)
                    ELSE IF out = <<>> THEN Trimmed(err) ELSE Trimmed(out))
            /\ (\A k \in 1..Len(out \o err) : (out \o err)[k] \in Whitespace)
                   => last.output = <<>>

\* C7 witness: a command that wrote to both streams and failed has been run
C7_Witness ==
    /\ last.kind = "call"
    /\ last.result.kind = "completed"
    /\ last.result.stdout = <<" ", "a", "\n">>
    /\ last.result.stderr = <<"b", "\t">>
    /\ last.result.returncode = 1
    /\ last.output = <<"a", "\n", "\n", "b">>

\* every pair of the range that is human -> gpt has been executed
AllPairsExecuted ==
    \A p \in 1..Len(infile) :
        InRange(p, start_index, end_index) =>
            \A j \in 1..Len(conversations_list(infile[p])) :
                IsGptSlot(conversations_list(infile[p]), j) =>
                    <<p, j - 2>> \in executed

\* the most recent command timed out or could not be launched
LastFailed ==
    last.kind \in {"call", "raise"} /\ last.result.kind \in {"timeout", "error"}

\* C8: a timeout or a launch failure is returned as its marker (the timeout
\* marker holds the configured timeout), the marker is stored in the gpt turn
\* of the pair, and the run goes on through every pair of the range to the
\* final save.
C8_FailuresRecovered ==
    /\ [](LastFailed =>
            /\ last.kind = "call"
            /\ last.output =
                   (IF last.result.kind = "timeout"
                    THEN TimeoutMarker(timeout)
                    ELSE ErrorMarker(last.result.msg))
            /\ data[last.conv].conversations[last.pos + 2].value = last.output)
    /\ (LastFailed ~> (pc = "done" /\ outfile = File(data) /\ AllPairsExecuted))

\* C8 witness: a run has completed in which sleep 5 timed out after 1 second
\* and the next pair of the conversation was executed after it
C8_Witness ==
    /\ pc = "done"
    /\ timeout = 1
    /\ \E p \in 1..Len(infile) :
        /\ infile[p] = Shapes[2]
        /\ outfile.content[p].conversations[2].value = TimeoutMarker(1)
        /\ outfile.content[p].conversations[4].value =
               <<"l", "s", ":", " ", "x">>

\* C9 as claimed: commands are executed and the file is written only when the
\* input exists and the prompt was answered yes or y in any case; a missing
\* input exits with a non-zero status before the prompt; any other end of the
\* prompt exits with status 0 before the dataset is loaded.
C9_Gate ==
    /\ (executed # {} \/ writes > 0 \/ outfile.exists \/ last.kind # "none") =>
            /\ input_exists
            /\ confirm.kind = "text"
            /\ lower(confirm.text) \in {<<"y", "e", "s">>, <<"y">>}
    /\ ~input_exists =>
            /\ confirm.kind = "none"
            /\ pc # "main" => (pc = "exited" /\ exit_code # <<0>>)
    /\ (/\ confirm.kind # "none"
        /\ ~(/\ confirm.kind = "text"
             /\ lower(confirm.text) \in {<<"y", "e", "s">>, <<"y">>})) =>
            /\ exit_code = <<0>>
            /\ data = <<>>
            /\ ~Loaded

\* C10: a run whose loop has completed ends with the final write, after which
\* the output file holds the whole dataset as it is in memory, all N
\* conversations of it.
C10_FinalSave ==
    /\ pc = "final" => ENABLED FinalSave
    /\ pc = "done" =>
            /\ outfile = File(data)
            /\ Len(outfile.content) = Len(infile)
            /\ writes = Cardinality(ckpts) + 1
            /\ exit_code = <<0>>

\* C10 witness: a run has completed whose last conversation was followed by a
\* checkpoint, in a dataset larger than the range
C10_Witness ==
    /\ pc = "done"
    /\ end_index = CheckpointEvery
    /\ start_index > 0
    /\ Len(infile) > end_index
    /\ processed \in ckpts

====
